---- MODULE Spec2Model ----
(***************************************************************************)
(* Model of backend/py_template/devdonalds.py: the in-memory cookbook, the *)
(* POST /entry handler (create_entry) and the GET /summary handler         *)
(* (get_summary) with its nested recursive flatten_recipe.                 *)
(***************************************************************************)
EXTENDS Integers, Sequences, FiniteSets, TLC

VARIABLES cookbook, req, resp, accepted, repeated, pc, local, tstatus

vars == <<cookbook, req, resp, accepted, repeated, pc, local, tstatus>>

---------------------------------------------------------------------------
(* Bounds of the model. *)

\* longest requiredItems list that is sent in a payload
MaxItems == 2

\* depth at which the interpreter raises RecursionError (1000 in CPython);
\* it exceeds the number of recipes the registry can hold, so only a
\* cyclic expansion reaches it
RecursionLimit == 3

\* multipliers range over -MaxMultiplier..MaxMultiplier
MaxMultiplier == 2

---------------------------------------------------------------------------
(* JSON values as they arrive from request.get_json() / request.args. *)

JNone == [kind |-> "none", s |-> "", n |-> 0]

JStr(x) == [kind |-> "str", s |-> x, n |-> 0]

JInt(i) == [kind |-> "int", s |-> "", n |-> i]

\* Python truthiness of a JSON scalar ("not x" is its negation)
Truthy(v) == CASE v.kind = "none" -> FALSE
               [] v.kind = "str" -> v.s # ""
               [] v.kind = "int" -> v.n # 0

\* isinstance(v, int)
IsInt(v) == v.kind = "int"

\* isinstance(v, str)
IsStr(v) == v.kind = "str"

---------------------------------------------------------------------------
(* Inputs. *)

RecipeNames == {"Omelette", "BigOmelette"}

IngredientNames == {"Egg", "Omelette"}

ItemNames == {"Egg", "Omelette", "ingredient"}

Quantities == {2}

CookTimes == {5}

Multipliers == (0 - MaxMultiplier)..MaxMultiplier

NoItems == [kind |-> "none", items |-> <<>>]

JList(seq) == [kind |-> "list", items |-> seq]

ValidItems == {[name |-> JStr(nm), quantity |-> JInt(q)] : nm \in ItemNames, q \in Quantities}

DistinctNames(seq) == \A i, j \in 1..Len(seq) : i # j => seq[i].name # seq[j].name

\* lists that pass every check of the requiredItems loop
ValidLists == {seq \in UNION {[1..k -> ValidItems] : k \in 0..MaxItems} : DistinctNames(seq)}

\* items at which the requiredItems loop returns 400 when they follow the
\* valid prefix p: an empty name or a quantity that is not an integer, or,
\* after valid items, the name of the first item again
BadItems(p) ==
  IF p = <<>>
    THEN {[name |-> JStr(""), quantity |-> JInt(2)],
          [name |-> JStr("Egg"), quantity |-> JStr("2")]}
    ELSE {it \in ValidItems : it.name = p[1].name}

\* a valid prefix followed by the first offending item; the loop returns
\* at that item, so what follows it is never read
BadLists == UNION {{Append(p, b) : b \in BadItems(p)} : p \in {q \in ValidLists : Len(q) < MaxItems}}

Payload(null, type, name, cookTime, requiredItems) ==
  [null |-> null, type |-> type, name |-> name, cookTime |-> cookTime, requiredItems |-> requiredItems]

NullData == Payload(TRUE, JNone, JNone, JNone, NoItems)

IngredientPayloads ==
  {Payload(FALSE, JStr("ingredient"), JStr(nm), ct, NoItems) :
     nm \in IngredientNames,
     ct \in {JNone, JStr("5"), JInt(0 - 1)} \cup {JInt(c) : c \in CookTimes}}

RecipePayloads ==
  {Payload(FALSE, JStr("recipe"), JStr(nm), JNone, ri) :
     nm \in RecipeNames,
     ri \in {NoItems} \cup {JList(l) : l \in ValidLists \cup BadLists}}

MalformedPayloads ==
  {NullData,
   Payload(FALSE, JNone, JStr("Egg"), JInt(5), NoItems),
   Payload(FALSE, JStr("drink"), JStr("Egg"), JInt(5), NoItems),
   Payload(FALSE, JStr("ingredient"), JNone, JInt(5), NoItems),
   Payload(FALSE, JStr("ingredient"), JStr(""), JInt(5), NoItems),
   Payload(FALSE, JStr("recipe"), JNone, JNone, JList(<<>>)),
   Payload(FALSE, JStr("recipe"), JStr(""), JNone, JList(<<>>))}

EntryPayloads == IngredientPayloads \cup RecipePayloads \cup MalformedPayloads

SummaryNames == {JNone, JStr("")} \cup {JStr(nm) : nm \in RecipeNames \cup ItemNames}

---------------------------------------------------------------------------
(* Type definitions. *)

RequiredItem(name, quantity) == [name |-> name, quantity |-> quantity]

Recipe(name, required_items) == [cls |-> "Recipe", name |-> name, required_items |-> required_items]

Ingredient(name, cook_time) == [cls |-> "Ingredient", name |-> name, cook_time |-> cook_time]

\* Cookbook.__init__: self.entries = {}
EmptyEntries == [k \in {} |-> Ingredient("", 0)]

\* self.entries[entry.name] = entry
store_entry(entries, entry) ==
  [k \in DOMAIN entries \cup {entry.name} |-> IF k = entry.name THEN entry ELSE entries[k]]

\* Cookbook.add_entry: raises ValueError when the name is a key, else stores
add_entry(entries, entry) ==
  IF entry.name \in DOMAIN entries
    THEN [raised |-> TRUE, entries |-> entries]
    ELSE [raised |-> FALSE, entries |-> store_entry(entries, entry)]

---------------------------------------------------------------------------
(* Responses. *)

Response(status) == [status |-> status, hasBody |-> FALSE, name |-> "", cookTime |-> 0, ingredients |-> <<>>]

SummaryBody(name, cookTime, ingredients) ==
  [status |-> 200, hasBody |-> TRUE, name |-> name, cookTime |-> cookTime, ingredients |-> ingredients]

---------------------------------------------------------------------------
(* POST /entry *)

RECURSIVE required_items_loop(_, _, _, _)

\* required_items_loop without the seen_names check
required_items_loop_no_seen(items, i, seen_names, required_items_objs) ==
  IF i > Len(items)
    THEN [ok |-> TRUE, objs |-> required_items_objs]
    ELSE LET item_name == items[i].name
             quantity == items[i].quantity
         IN IF ~Truthy(item_name) \/ ~IsStr(item_name) \/ ~IsInt(quantity)
              THEN [ok |-> FALSE, objs |-> <<>>]
              ELSE required_items_loop(items, i + 1, seen_names \cup {item_name.s},
                                       Append(required_items_objs, RequiredItem(item_name.s, quantity.n)))

\* the for-loop of create_entry over requiredItems (lines 119-129):
\* 400 at the first item that fails a check, else the RequiredItem objects
required_items_loop(items, i, seen_names, required_items_objs) ==
  IF i > Len(items)
    THEN [ok |-> TRUE, objs |-> required_items_objs]
    ELSE LET item_name == items[i].name
             quantity == items[i].quantity
         IN IF ~Truthy(item_name) \/ ~IsStr(item_name) \/ ~IsInt(quantity)
              THEN [ok |-> FALSE, objs |-> <<>>]
              ELSE IF item_name.s \in seen_names
                THEN [ok |-> FALSE, objs |-> <<>>]
                ELSE required_items_loop(items, i + 1, seen_names \cup {item_name.s},
                                         Append(required_items_objs, RequiredItem(item_name.s, quantity.n)))

Rejected == [ok |-> FALSE, entry |-> Ingredient("", 0)]

\* create_entry up to the call of cookbook.add_entry (lines 87-132): the
\* entry object that is handed to add_entry, or a 400 before that
build_entry(data) ==
  IF data.null THEN Rejected
  ELSE IF ~(IsStr(data.type) /\ data.type.s \in {"recipe", "ingredient"}) THEN Rejected
  ELSE IF ~Truthy(data.name) THEN Rejected
  ELSE IF data.type.s = "ingredient"
    THEN LET cook_time == data.cookTime
         IN IF cook_time.kind = "none" \/ ~IsInt(cook_time) \/ cook_time.n < 0
              THEN Rejected
              ELSE [ok |-> TRUE, entry |-> Ingredient(data.type.s, cook_time.n)]
    ELSE LET required_items == data.requiredItems
         IN IF required_items.kind # "list"
              THEN Rejected
              ELSE LET r == required_items_loop(required_items.items, 1, {}, <<>>)
                   IN IF ~r.ok THEN Rejected
                      ELSE [ok |-> TRUE, entry |-> Recipe(data.name.s, r.objs)]

\* the whole handler as a function of the registry: status and new registry
create_entry_result(entries, data) ==
  LET b == build_entry(data)
  IN IF ~b.ok
       THEN [status |-> 400, entries |-> entries]
       ELSE LET a == add_entry(entries, b.entry)
            IN IF a.raised
                 THEN [status |-> 400, entries |-> a.entries]
                 ELSE [status |-> 200, entries |-> a.entries]

---------------------------------------------------------------------------
(* GET /summary *)

\* a Python dict (insertion ordered) as a sequence of <<key, value>> records
DictHas(d, k) == \E i \in 1..Len(d) : d[i].name = k

\* d.get(k, 0)
DictGet(d, k) == IF DictHas(d, k) THEN (CHOOSE e \in {d[i] : i \in 1..Len(d)} : e.name = k).quantity ELSE 0

\* d[k] = v
DictSet(d, k, v) ==
  IF DictHas(d, k)
    THEN [i \in 1..Len(d) |-> IF d[i].name = k THEN [name |-> k, quantity |-> v] ELSE d[i]]
    ELSE Append(d, [name |-> k, quantity |-> v])

RECURSIVE merge_sub_flat(_, _, _)
\* for ing, sub_qty in sub_flat.items(): flat[ing] = flat.get(ing, 0) + sub_qty
merge_sub_flat(flat, sub_flat, i) ==
  IF i > Len(sub_flat) THEN flat
  ELSE merge_sub_flat(DictSet(flat, sub_flat[i].name, DictGet(flat, sub_flat[i].name) + sub_flat[i].quantity),
                      sub_flat, i + 1)

Raise(exc) == [err |-> exc, flat |-> <<>>]

RECURSIVE flatten_recipe(_, _, _, _)
RECURSIVE flatten_loop(_, _, _, _, _, _)

\* flatten_loop that skips a required item that is not in the cookbook
flatten_loop_skip_missing(entries, required_items, i, flat, multiplier, depth) ==
  IF i > Len(required_items)
    THEN [err |-> "", flat |-> flat]
    ELSE LET r == required_items[i]
         IN IF r.name \notin DOMAIN entries
              THEN flatten_loop(entries, required_items, i + 1, flat, multiplier, depth)
              ELSE LET item == entries[r.name]
                       qty == r.quantity * multiplier
                   IN IF item.cls = "Ingredient"
                        THEN flatten_loop(entries, required_items, i + 1,
                                          DictSet(flat, item.name, DictGet(flat, item.name) + qty),
                                          multiplier, depth)
                        ELSE LET sub == flatten_recipe(entries, item, qty, depth + 1)
                             IN IF sub.err # ""
                                  THEN sub
                                  ELSE flatten_loop(entries, required_items, i + 1,
                                                    merge_sub_flat(flat, sub.flat, 1),
                                                    multiplier, depth)

\* flatten_loop that expands a nested recipe with multiplier=req.quantity
flatten_loop_drop_multiplier(entries, required_items, i, flat, multiplier, depth) ==
  IF i > Len(required_items)
    THEN [err |-> "", flat |-> flat]
    ELSE LET r == required_items[i]
         IN IF r.name \notin DOMAIN entries
              THEN Raise("ValueError")
              ELSE LET item == entries[r.name]
                       qty == r.quantity * multiplier
                   IN IF item.cls = "Ingredient"
                        THEN flatten_loop(entries, required_items, i + 1,
                                          DictSet(flat, item.name, DictGet(flat, item.name) + qty),
                                          multiplier, depth)
                        ELSE LET sub == flatten_recipe(entries, item, r.quantity, depth + 1)
                             IN IF sub.err # ""
                                  THEN sub
                                  ELSE flatten_loop(entries, required_items, i + 1,
                                                    merge_sub_flat(flat, sub.flat, 1),
                                                    multiplier, depth)

\* the for-loop of flatten_recipe (lines 160-176), from item i on
flatten_loop(entries, required_items, i, flat, multiplier, depth) ==
  IF i > Len(required_items)
    THEN [err |-> "", flat |-> flat]
    ELSE LET r == required_items[i]
         IN IF r.name \notin DOMAIN entries
              THEN Raise("ValueError")
              ELSE LET item == entries[r.name]
                       qty == r.quantity * multiplier
                   IN IF item.cls = "Ingredient"
                        THEN flatten_loop(entries, required_items, i + 1,
                                          DictSet(flat, item.name, DictGet(flat, item.name) + qty),
                                          multiplier, depth)
                        ELSE IF item.cls = "Recipe"
                          THEN LET sub == flatten_recipe(entries, item, qty, depth + 1)
                               IN IF sub.err # ""
                                    THEN sub
                                    ELSE flatten_loop(entries, required_items, i + 1,
                                                      merge_sub_flat(flat, sub.flat, 1),
                                                      multiplier, depth)
                          ELSE Raise("ValueError")

\* flatten_recipe(recipe, multiplier) at call depth `depth`; the code has
\* no cycle guard, so a call nested deeper than the interpreter's
\* recursion limit raises RecursionError
flatten_recipe(entries, recipe, multiplier, depth) ==
  IF depth > RecursionLimit
    THEN Raise("RecursionError")
    ELSE flatten_loop(entries, recipe.required_items, 1, <<>>, multiplier, depth)

RECURSIVE summary_loop(_, _, _, _, _, _)

\* summary_loop that answers 400 when there is no base ingredient
summary_loop_reject_empty(entries, recipe_name, base_ingredients, i, total_cook_time, ingredients_list) ==
  IF base_ingredients = <<>>
    THEN Response(400)
    ELSE IF i > Len(base_ingredients)
      THEN SummaryBody(recipe_name, total_cook_time, ingredients_list)
      ELSE LET ing_name == base_ingredients[i].name
               quantity == base_ingredients[i].quantity
           IN IF ing_name \notin DOMAIN entries
                THEN Response(400)
                ELSE IF entries[ing_name].cls # "Ingredient"
                  THEN Response(400)
                  ELSE summary_loop(entries, recipe_name, base_ingredients, i + 1,
                                    total_cook_time + entries[ing_name].cook_time * quantity,
                                    Append(ingredients_list, [name |-> ing_name, quantity |-> quantity]))

\* the loop over base_ingredients and the response (lines 185-203)
summary_loop(entries, recipe_name, base_ingredients, i, total_cook_time, ingredients_list) ==
  IF i > Len(base_ingredients)
    THEN SummaryBody(recipe_name, total_cook_time, ingredients_list)
    ELSE LET ing_name == base_ingredients[i].name
             quantity == base_ingredients[i].quantity
         IN IF ing_name \notin DOMAIN entries
              THEN Response(400)
              ELSE IF entries[ing_name].cls # "Ingredient"
                THEN Response(400)
                ELSE summary_loop(entries, recipe_name, base_ingredients, i + 1,
                                  total_cook_time + entries[ing_name].cook_time * quantity,
                                  Append(ingredients_list, [name |-> ing_name, quantity |-> quantity]))

\* get_summary as a function of the registry and the query parameter; an
\* exception that is not a ValueError leaves the handler and Flask
\* answers 500
summary_response(entries, recipe_name) ==
  IF ~Truthy(recipe_name) THEN Response(400)
  ELSE IF recipe_name.s \notin DOMAIN entries THEN Response(400)
  ELSE LET entry == entries[recipe_name.s]
       IN IF entry.cls # "Recipe" THEN Response(400)
          ELSE LET base_ingredients == flatten_recipe(entries, entry, 1, 1)
               IN IF base_ingredients.err = "ValueError" THEN Response(400)
                  ELSE IF base_ingredients.err # "" THEN Response(500)
                  ELSE summary_loop(entries, recipe_name.s, base_ingredients.flat, 1, 0, <<>>)

---------------------------------------------------------------------------
(* The service handling one request at a time. *)

Threads == {1, 2}

NoRequest == [op |-> "none", data |-> NullData, name |-> JNone]

Init ==
  /\ cookbook = EmptyEntries
  /\ req = NoRequest
  /\ resp = Response(0)
  /\ accepted = {}
  /\ repeated = "no"
  /\ pc = [t \in Threads |-> "idle"]
  /\ local = [t \in Threads |-> [data |-> NullData, entry |-> Rejected.entry]]
  /\ tstatus = [t \in Threads |-> 0]

\* POST /entry with JSON body `data`.  accepted records the payloads that
\* were answered 200.
create_entry(data) ==
  LET r == create_entry_result(cookbook, data)
  IN /\ cookbook' = r.entries
     /\ req' = [op |-> "entry", data |-> data, name |-> JNone]
     /\ resp' = Response(r.status)
     /\ accepted' = IF r.status = 200 THEN accepted \cup {data} ELSE accepted
     /\ repeated' = "no"
     /\ UNCHANGED <<pc, local, tstatus>>

\* get_summary whose expansion pops the required items off the stored recipe
get_summary_consuming(recipe_name) ==
  LET r == summary_response(cookbook, recipe_name)
  IN /\ resp' = r
     /\ req' = [op |-> "summary", data |-> NullData, name |-> recipe_name]
     /\ repeated' = IF req.op = "summary" /\ req.name = recipe_name
                      THEN (IF r = resp THEN "same" ELSE "differ")
                      ELSE "no"
     /\ cookbook' = [k \in DOMAIN cookbook |->
                       IF k = recipe_name.s /\ cookbook[k].cls = "Recipe"
                         THEN Recipe(k, <<>>)
                         ELSE cookbook[k]]
     /\ UNCHANGED <<accepted, pc, local, tstatus>>

\* GET /summary?name=recipe_name.  repeated records whether the request
\* before this one was the same GET, and whether the two responses agree.
get_summary(recipe_name) ==
  LET r == summary_response(cookbook, recipe_name)
  IN /\ resp' = r
     /\ req' = [op |-> "summary", data |-> NullData, name |-> recipe_name]
     /\ repeated' = IF req.op = "summary" /\ req.name = recipe_name
                      THEN (IF r = resp THEN "same" ELSE "differ")
                      ELSE "no"
     /\ UNCHANGED <<cookbook, accepted, pc, local, tstatus>>

Next ==
  \/ \E data \in EntryPayloads : create_entry(data)
  \/ \E recipe_name \in SummaryNames : get_summary(recipe_name)

Spec == Init /\ [][Next]_vars

---------------------------------------------------------------------------
(* Two POST /entry requests handled by concurrent threads of the Flask     *)
(* server; add_entry takes no lock, so its membership test and its store   *)
(* are separate steps.                                                     *)

\* create_entry up to the call of add_entry
begin_create_entry(t, data) ==
  /\ pc[t] = "idle"
  /\ LET b == build_entry(data)
     IN IF b.ok
          THEN /\ local' = [local EXCEPT ![t] = [data |-> data, entry |-> b.entry]]
               /\ pc' = [pc EXCEPT ![t] = "check"]
               /\ UNCHANGED tstatus
          ELSE /\ pc' = [pc EXCEPT ![t] = "done"]
               /\ tstatus' = [tstatus EXCEPT ![t] = 400]
               /\ UNCHANGED local
  /\ UNCHANGED <<cookbook, req, resp, accepted, repeated>>

\* add_entry line 30: if entry.name in self.entries: raise ValueError
add_entry_check(t) ==
  /\ pc[t] = "check"
  /\ IF local[t].entry.name \in DOMAIN cookbook
       THEN /\ pc' = [pc EXCEPT ![t] = "done"]
            /\ tstatus' = [tstatus EXCEPT ![t] = 400]
       ELSE /\ pc' = [pc EXCEPT ![t] = "store"]
            /\ UNCHANGED tstatus
  /\ UNCHANGED <<cookbook, req, resp, accepted, repeated, local>>

\* add_entry line 32: self.entries[entry.name] = entry, then 200
add_entry_store(t) ==
  /\ pc[t] = "store"
  /\ cookbook' = store_entry(cookbook, local[t].entry)
  /\ pc' = [pc EXCEPT ![t] = "done"]
  /\ tstatus' = [tstatus EXCEPT ![t] = 200]
  /\ UNCHANGED <<req, resp, accepted, repeated, local>>

NextConc ==
  \/ \E t \in Threads, data \in EntryPayloads : begin_create_entry(t, data)
  \/ \E t \in Threads : add_entry_check(t)
  \/ \E t \in Threads : add_entry_store(t)

SpecConc == Init /\ [][NextConc]_vars

---------------------------------------------------------------------------
(* Properties. *)

IsRecipe(entries, k) == k \in DOMAIN entries /\ entries[k].cls = "Recipe"

EntryRequest(r) == r.op = "entry"

SummaryRequest(r) == r.op = "summary"

\* the RequiredItem objects a payload's requiredItems describe
SubmittedItems(data) ==
  [i \in 1..Len(data.requiredItems.items) |->
     RequiredItem(data.requiredItems.items[i].name.s, data.requiredItems.items[i].quantity.n)]

\* the registry holds, under the payload's name, an entry of the payload's
\* type with the payload's fields
Holds(entries, data) ==
  /\ data.name.s \in DOMAIN entries
  /\ LET e == entries[data.name.s]
     IN /\ e.name = data.name.s
        /\ data.type.s = "ingredient" => e.cls = "Ingredient" /\ e.cook_time = data.cookTime.n
        /\ data.type.s = "recipe" => e.cls = "Recipe" /\ e.required_items = SubmittedItems(data)

\* C1: no two entries of the registry share a name, and a POST /entry
\* whose name is already in the registry returns 400 and leaves the
\* registry as it was.
C1_Uniqueness ==
  [][/\ \A k \in DOMAIN cookbook' : cookbook'[k].name = k
     /\ (EntryRequest(req') /\ IsStr(req'.data.name) /\ req'.data.name.s \in DOMAIN cookbook)
          => (resp'.status = 400 /\ cookbook' = cookbook)]_vars

\* C2: once POST /entry has returned 200 for a payload named n, the
\* registry maps n to an entry of the submitted type with the submitted
\* fields, in that state and in every later one.
C2_StoredUnderName == \A data \in accepted : Holds(cookbook, data)

EggPayload == Payload(FALSE, JStr("ingredient"), JStr("Egg"), JInt(5), NoItems)

OmelettePayload ==
  Payload(FALSE, JStr("recipe"), JStr("Omelette"), JNone,
          JList(<<[name |-> JStr("Egg"), quantity |-> JInt(2)]>>))

BigOmelettePayload ==
  Payload(FALSE, JStr("recipe"), JStr("BigOmelette"), JNone,
          JList(<<[name |-> JStr("Omelette"), quantity |-> JInt(2)]>>))

RECURSIVE CookTimeSum(_, _, _)
\* sum over ingredients[i..] of cookTime * quantity
CookTimeSum(entries, ingredients, i) ==
  IF i > Len(ingredients) THEN 0
  ELSE entries[ingredients[i].name].cook_time * ingredients[i].quantity
       + CookTimeSum(entries, ingredients, i + 1)

\* C3: after the three requests Egg (cookTime 5), Omelette (Egg x2) and
\* BigOmelette (Omelette x2) on an empty registry, GET /summary for
\* BigOmelette returns 200, cookTime 20 and ingredients [Egg x4]; the
\* cookTime of every summary is the sum of cookTime times quantity over its
\* ingredients.
C3_NestedExample ==
  /\ (accepted = {EggPayload, OmelettePayload, BigOmelettePayload}
      /\ SummaryRequest(req) /\ req.name = JStr("BigOmelette"))
       => resp = SummaryBody("BigOmelette", 20, <<[name |-> "Egg", quantity |-> 4]>>)
  /\ (SummaryRequest(req) /\ resp.hasBody)
       => resp.cookTime = CookTimeSum(cookbook, resp.ingredients, 1)

RECURSIVE FirstStop(_, _, _, _)
\* what the depth-first expansion of items[i..] meets first: a required
\* item that is not in the registry ("missing"), a recipe that is already
\* being expanded ("cycle"), or neither ("end")
FirstStop(entries, items, i, expanding) ==
  IF i > Len(items) THEN "end"
  ELSE IF items[i].name \notin DOMAIN entries THEN "missing"
  ELSE IF entries[items[i].name].cls # "Recipe" THEN FirstStop(entries, items, i + 1, expanding)
  ELSE IF items[i].name \in expanding THEN "cycle"
  ELSE LET inner == FirstStop(entries, entries[items[i].name].required_items, 1,
                              expanding \cup {items[i].name})
       IN IF inner # "end" THEN inner ELSE FirstStop(entries, items, i + 1, expanding)

ReachesMissing(entries, k) == FirstStop(entries, entries[k].required_items, 1, {k}) = "missing"

\* C4: when the expansion of a recipe R reaches, directly or through
\* nested recipes and at any multiplier, a required item that is not in
\* the registry, flattening fails and GET /summary?name=R returns 400 with
\* no body.
C4_UnresolvedReference ==
  /\ \A k \in DOMAIN cookbook :
       (IsRecipe(cookbook, k) /\ ReachesMissing(cookbook, k))
         => /\ \A m \in Multipliers : flatten_recipe(cookbook, cookbook[k], m, 1) = Raise("ValueError")
            /\ summary_response(cookbook, JStr(k)) = Response(400)
  /\ (SummaryRequest(req) /\ IsRecipe(cookbook, req.name.s) /\ ReachesMissing(cookbook, req.name.s))
       => resp = Response(400)

\* a summary of BigOmelette that has counted an ingredient before it
\* reaches, inside Omelette, the name Egg that is not in the registry
C4_Witness ==
  /\ SummaryRequest(req) /\ req.name = JStr("BigOmelette")
  /\ DOMAIN cookbook = {"BigOmelette", "Omelette", "ingredient"}
  /\ cookbook["BigOmelette"].required_items = <<RequiredItem("ingredient", 2), RequiredItem("Omelette", 2)>>
  /\ cookbook["Omelette"].required_items = <<RequiredItem("ingredient", 2), RequiredItem("Egg", 2)>>
  /\ resp = Response(400)

\* the payload is one of those the validator rejects on its fields
Malformed(data) ==
  \/ data.null
  \/ ~(data.type \in {JStr("recipe"), JStr("ingredient")})
  \/ data.name \in {JNone, JStr("")}
  \/ data.type = JStr("ingredient") /\ (data.cookTime.kind # "int" \/ data.cookTime.n < 0)
  \/ data.type = JStr("recipe") /\ data.requiredItems.kind # "list"
  \/ data.type = JStr("recipe")
       /\ \E i \in 1..Len(data.requiredItems.items) :
            \/ data.requiredItems.items[i].name = JStr("")
            \/ data.requiredItems.items[i].quantity.kind # "int"

\* a recipe payload in which two required items have the same name
DuplicateItems(data) ==
  /\ data.type = JStr("recipe")
  /\ \E i, j \in 1..Len(data.requiredItems.items) :
       i < j /\ data.requiredItems.items[i].name = data.requiredItems.items[j].name

\* C5: a POST /entry that returns 400 leaves the registry unchanged;
\* a malformed payload, and a recipe payload with two required items of
\* the same name, is answered 400 and nothing of it is stored.
C5_RejectedUnchanged ==
  [][EntryRequest(req') =>
       /\ resp'.status = 400 => cookbook' = cookbook
       /\ (Malformed(req'.data) \/ DuplicateItems(req'.data))
            => (resp'.status = 400 /\ cookbook' = cookbook)]_vars

\* a recipe with a fresh name whose second required item repeats the
\* valid first one was answered 400 by a registry that holds entries
C5_Witness ==
  /\ EntryRequest(req) /\ DuplicateItems(req.data)
  /\ Len(req.data.requiredItems.items) >= 2
  /\ Truthy(req.data.name) /\ req.data.name.s \notin DOMAIN cookbook
  /\ DOMAIN cookbook # {}
  /\ resp = Response(400)

\* every quantity of flat multiplied by m
Scaled(flat, m) == [i \in 1..Len(flat) |-> [name |-> flat[i].name, quantity |-> m * flat[i].quantity]]

\* C6: for a recipe whose expansion resolves and every multiplier m,
\* flatten_recipe(R, m) has the keys of flatten_recipe(R, 1) and maps each
\* to m times its quantity.
C6_Additivity ==
  \A k \in DOMAIN cookbook :
    IsRecipe(cookbook, k) =>
      LET one == flatten_recipe(cookbook, cookbook[k], 1, 1)
      IN one.err = "" =>
           \A m \in Multipliers :
             flatten_recipe(cookbook, cookbook[k], m, 1) = [err |-> "", flat |-> Scaled(one.flat, m)]

\* BigOmelette reaches the ingredient directly and through Omelette, and
\* was summarised
C6_Witness ==
  /\ SummaryRequest(req) /\ req.name = JStr("BigOmelette")
  /\ DOMAIN cookbook = {"BigOmelette", "Omelette", "ingredient"}
  /\ cookbook["BigOmelette"].required_items = <<RequiredItem("Omelette", 2), RequiredItem("ingredient", 2)>>
  /\ cookbook["Omelette"].required_items = <<RequiredItem("ingredient", 2)>>
  /\ resp.status = 200
  /\ resp.ingredients = <<[name |-> "ingredient", quantity |-> 6]>>
  /\ flatten_recipe(cookbook, cookbook["BigOmelette"], 2, 1).flat = <<[name |-> "ingredient", quantity |-> 12]>>

\* C7: GET /summary does not change the registry, and a GET /summary that
\* directly follows a GET /summary for the same name returns the same
\* status and body.
C7_SummaryFrame ==
  [][SummaryRequest(req') => (cookbook' = cookbook /\ repeated' # "differ")]_vars

\* the same recipe was summarised twice in a row, with ingredients
C7_Witness ==
  /\ SummaryRequest(req) /\ repeated = "same"
  /\ resp.status = 200 /\ resp.ingredients # <<>>

\* C8: GET /summary for a registered recipe with no required items
\* returns 200 with cookTime 0 and no ingredients.
C8_EmptyRecipe ==
  /\ \A k \in DOMAIN cookbook :
       (IsRecipe(cookbook, k) /\ cookbook[k].required_items = <<>>)
         => summary_response(cookbook, JStr(k)) = SummaryBody(k, 0, <<>>)
  /\ (SummaryRequest(req) /\ IsRecipe(cookbook, req.name.s) /\ cookbook[req.name.s].required_items = <<>>)
       => resp = SummaryBody(req.name.s, 0, <<>>)

\* an empty recipe was summarised in a registry that holds other entries
C8_Witness ==
  /\ SummaryRequest(req) /\ IsRecipe(cookbook, req.name.s)
  /\ cookbook[req.name.s].required_items = <<>>
  /\ Cardinality(DOMAIN cookbook) = 3
  /\ resp.status = 200

\* C9: every GET /summary completes with 200 or 400.
C9_SummaryCompletes == SummaryRequest(req) => resp.status \in {200, 400}

\* C10: of two concurrent POST /entry requests with the same name at most
\* one returns 200, and a stored entry is never overwritten.
C10_ConcurrentUniqueness ==
  [][/\ \A k \in DOMAIN cookbook : cookbook'[k] = cookbook[k]
     /\ \A t, u \in Threads :
          (t # u /\ tstatus'[t] = 200 /\ tstatus'[u] = 200)
            => local'[t].data.name # local'[u].data.name]_vars

====
